---- MODULE Spec2Model ----
(***************************************************************************)
(* A model of the Python example payloads of the gaffer repository:        *)
(*   - examples/05-ml-workflows/src: data_prep.py, feature_engineering.py, *)
(*     train_model.py and evaluate_model.py, four scripts that communicate *)
(*     through files under data/;                                          *)
(*   - examples/08-multi-language-task-running/python-ml/ml_models:        *)
(*     ImageClassifier and PredictionService.                              *)
(* Library calls that can raise are modelled by a fault input of the       *)
(* action that makes the call; the number of injected faults is bounded.   *)
(***************************************************************************)
EXTENDS Integers, Sequences, FiniteSets, TLC

VARIABLES
    raw,          \* datasets d for which data/raw/{d}.csv exists
    processed,    \* datasets d for which data/processed/{d}_processed.csv exists
    trainres,     \* d -> the file data/results/training_results_{d}.json
    models,       \* the paths of the files that exist under data/models
    model_src,    \* path in models -> the data (raw or processed CSV) the estimator
                  \* dumped at that path was fitted on
    xgboost,      \* whether the xgboost package can be imported
    script,       \* the script whose process is running, or "none"
    pc,           \* position of the running process
    idx,          \* 1-based index of main()'s next step (dataset of its loop)
    successful,   \* main()'s counter (successful_*; len(datasets) in data_prep)
    exitcode,     \* what main() returned; NoCode while it has not returned
    trace,        \* one record per dataset call of the running main(), in call order
    runsLeft,     \* script runs still allowed
    faultsLeft,   \* faults (a library call raising, a data file removed) still allowed
    classifier,   \* the ImageClassifier of the PredictionService
    call,         \* the last call on the classifier or the service, with its result
    tie_rule,     \* how this numpy build orders equal entries in argsort
    saved,        \* the file a classifier was saved to: <<>> or <<the dumped model>>
    an_pc,        \* position of the analyze.py process
    an_gets,      \* HTTP GETs the running analyze.py has issued
    an_answer,    \* what the backend answered to the GET
    an_result,    \* what fetch_and_analyze_metrics returned
    an_exit,      \* what analyze.main() returned; NoCode while it has not
    an_runs,      \* runs of analyze.py still allowed
    frame,        \* a data frame read from a CSV: its column names and row count
    permutation,  \* RandomState(42).permutation(frame.nrows), as train_test_split draws it
    sp_train,     \* what train_model has prepared from the frame
    sp_eval,      \* what evaluate_model has prepared from the frame
    fe_name,      \* the dataset_name process_dataset was called with
    fe_step,      \* the last step of process_dataset that has been applied
    fe_df,        \* process_dataset's df: the columns of the frame, in order
    fe_prev,      \* df as it was before the last step
    fe_log        \* the steps process_dataset has applied, in order

pvars == <<raw, processed, trainres, models, model_src, xgboost, script, pc, idx,
           successful, exitcode, trace, runsLeft, faultsLeft>>

mlvars == <<classifier, call, tie_rule, saved>>

anvars == <<an_pc, an_gets, an_answer, an_result, an_exit, an_runs>>

spvars == <<frame, permutation, sp_train, sp_eval>>

fevars == <<fe_name, fe_step, fe_df, fe_prev, fe_log>>

vars == <<pvars, mlvars, anvars, spvars, fevars>>

(***************************************************************************)
(* Bounds of the model.                                                    *)
(***************************************************************************)
MaxRuns == 3
MaxFaults == 1
MaxAnalyzeRuns == 2   \* runs of analyze.py
MaxFields == 2        \* fields of the `data` object in the backend's body
MaxClock == 1         \* time.time() and the body's timestamp range over 0..MaxClock
MaxCols == 2          \* columns of a data frame
MaxSplitRows == 4     \* rows of a data frame
MaxFECols == 6        \* columns of a raw CSV that data_prep did not write

NoCode == 0 - 1

(***************************************************************************)
(* Program constants.                                                      *)
(***************************************************************************)
\* process_dataset: `if df.shape[1] > 15` and select_features(df, k=15)
SelectThreshold == 15
SelectK == 15

\* datasets = ['california_housing', 'iris', 'wine'] in the three main() loops
datasets == <<"california_housing", "iris", "wine">>

DatasetSet == {datasets[i] : i \in 1..Len(datasets)}

Scripts == {"data_prep", "feature_engineering", "train_model", "evaluate_model"}

\* prepare_data's auto-detection on the frames data_prep writes: MedHouseVal is
\* continuous, the target of iris and wine has three values (< 20)
ProblemTypeOf(d) == IF d = "california_housing" THEN "regression" ELSE "classification"

\* create_models: the dict of models in insertion order
create_models(problem_type, xgb) ==
    (IF problem_type = "regression"
        THEN <<"linear_regression", "random_forest", "svr">>
        ELSE <<"logistic_regression", "random_forest", "svc">>)
    \o (IF xgb THEN <<"xgboost">> ELSE <<>>)

ModelNames == {"linear_regression", "logistic_regression", "random_forest",
               "svr", "svc", "xgboost"}

SeqToSet(s) == {s[i] : i \in 1..Len(s)}

\* A file name is the sequence of its parts between underscores, so that two
\* names are the same string exactly when they are the same sequence.
Tokens(name) ==
    CASE name = "linear_regression" -> <<"linear", "regression">>
      [] name = "logistic_regression" -> <<"logistic", "regression">>
      [] name = "random_forest" -> <<"random", "forest">>
      [] name = "california_housing" -> <<"california", "housing">>
      [] OTHER -> <<name>>

\* an evaluate_model that looks for {dataset}_{model}_model.joblib
EvalPathSwapped(m, d) == <<"data/models/">> \o Tokens(d) \o Tokens(m) \o <<"model.joblib">>

\* evaluate_dataset_models: f'{models_dir}/{model_name}_{dataset_name}_model.joblib'
eval_model_path(m, d) == <<"data/models/">> \o Tokens(m) \o Tokens(d) \o <<"model.joblib">>

\* train_models: f'data/models/{model_name}_{dataset_name}_model.joblib'
train_model_path(m, d) == <<"data/models/">> \o Tokens(m) \o Tokens(d) \o <<"model.joblib">>

NoResults == [state |-> "absent", problem_type |-> "none", models_trained |-> 0,
              results |-> <<>>]
Corrupt == [state |-> "corrupt", problem_type |-> "none", models_trained |-> 0,
            results |-> <<>>]

\* the record a dataset call leaves in the trace
CallRec(d, ok, fault, source, attempted, outcomes) ==
    [dataset |-> d, ok |-> ok, fault |-> fault, source |-> source,
     attempted |-> attempted, outcomes |-> outcomes]

CountBad(o) == Cardinality({i \in DOMAIN o : o[i] # "ok"})

\* The faults one training call spends: one per failing model, and one in all when
\* every fit raises, which a single cause in the frame (a column no estimator
\* accepts) brings about.
TrainCost(o) ==
    IF o # <<>> /\ \A i \in DOMAIN o : o[i] = "fit_fail" THEN 1 ELSE CountBad(o)


(***************************************************************************)
(* feature_engineering.py                                                  *)
(***************************************************************************)
\* load_raw_data: the source read, "none" when FileNotFoundError is raised
load_raw_data(d) == IF d \in raw THEN "raw" ELSE "none"

\* "transform": a call before the processed CSV is written raises (read_csv, a
\* transformer, to_csv); "save_meta": the metadata dump after it raises
FEFaults == {"transform", "save_meta"}

\* process_dataset(dataset_name) with a fault raised at step `fault` ("none": no
\* fault).  ret is the returned value, "raise" if an exception leaves the function;
\* wrote says whether the processed CSV was written.
process_dataset(d, fault) ==
    LET src == load_raw_data(d) IN
    IF src = "none"
      THEN [ret |-> "False", wrote |-> FALSE,
            rec |-> CallRec(d, FALSE, "not_found", "none", <<>>, <<>>)]
    ELSE IF fault = "transform"
      THEN [ret |-> "False", wrote |-> FALSE,
            rec |-> CallRec(d, FALSE, fault, src, <<>>, <<>>)]
    ELSE IF fault = "save_meta"
      \* to_csv has written the processed CSV, the metadata dump raises
      THEN [ret |-> "False", wrote |-> TRUE,
            rec |-> CallRec(d, FALSE, fault, src, <<>>, <<>>)]
    ELSE [ret |-> "True", wrote |-> TRUE,
          rec |-> CallRec(d, TRUE, "none", src, <<>>, <<>>)]

\* main(): the exit code from the counter
fe_main_return(n) == IF n > 0 THEN 0 ELSE 1

(***************************************************************************)
(* feature_engineering.py: the frame process_dataset transforms.  A frame  *)
(* is the sequence of its columns; a column has a name, a dtype and its    *)
(* values.                                                                 *)
(***************************************************************************)
\* A column name is the sequence of its words, the parts between spaces; a word
\* is the sequence of its parts between underscores.  'sepal length (cm)' has
\* three words, 'malic_acid' one word of two parts.
Name(s) == << <<s>> >>

\* str.count(' ')
count_spaces(name) == Len(name) - 1

RECURSIVE Flatten(_)
Flatten(ws) == IF ws = <<>> THEN <<>> ELSE Head(ws) \o Flatten(Tail(ws))

\* name.replace(' ', '_')
replace_spaces(name) == <<Flatten(name)>>

\* f'interaction_{clean_name}'
interaction_name(clean_name) == <<(<<"interaction">> \o clean_name[1])>>

\* The values of a column.  A frame of the model has two rows and no missing
\* cell.  Values that integer arithmetic yields are kept (cells); values that need
\* real arithmetic are kept as the name of the computation (term).
Data(cells) == [kind |-> "data", cells |-> cells, term |-> <<>>]
Term(t) == [kind |-> "term", cells |-> <<>>, term |-> t]

Col(name, dtype, values) == [name |-> name, dtype |-> dtype, values |-> values]

\* list(df.columns)
columns_of(df) == [i \in 1..Len(df) |-> df[i].name]

\* name in df.columns
HasColumn(df, name) == \E i \in 1..Len(df) : df[i].name = name

\* df[name]
column(df, name) == df[CHOOSE i \in 1..Len(df) : df[i].name = name]

\* df[name] = values: an existing column keeps its place, a new one goes last
set_column(df, name, values) ==
    IF HasColumn(df, name)
      THEN [i \in 1..Len(df) |->
              IF df[i].name = name THEN Col(name, "number", values) ELSE df[i]]
      ELSE Append(df, Col(name, "number", values))

\* df.drop(columns=[name])
drop_column(df, name) == SelectSeq(df, LAMBDA c : c.name # name)

\* df.select_dtypes(include=[np.number]).columns.tolist()
numeric_columns(df) == columns_of(SelectSeq(df, LAMBDA c : c.dtype = "number"))

\* for target in ['target', 'label', 'class']: numeric_cols.remove(target)
remove_targets(cols) ==
    SelectSeq(cols, LAMBDA n : n \notin {Name("target"), Name("label"), Name("class")})

\* the columns of the frames data_prep writes (sklearn's fetch_california_housing,
\* load_iris and load_wine with as_frame=True)
CaliforniaColumns ==
    <<Name("MedInc"), Name("HouseAge"), Name("AveRooms"), Name("AveBedrms"),
      Name("Population"), Name("AveOccup"), Name("Latitude"), Name("Longitude"),
      Name("MedHouseVal")>>

IrisColumns ==
    << <<(<<"sepal">>), (<<"length">>), (<<"(cm)">>)>>,
       <<(<<"sepal">>), (<<"width">>), (<<"(cm)">>)>>,
       <<(<<"petal">>), (<<"length">>), (<<"(cm)">>)>>,
       <<(<<"petal">>), (<<"width">>), (<<"(cm)">>)>>,
       Name("target") >>

WineColumns ==
    <<Name("alcohol"), <<(<<"malic", "acid">>)>>, Name("ash"),
      <<(<<"alcalinity", "of", "ash">>)>>, Name("magnesium"),
      <<(<<"total", "phenols">>)>>, Name("flavanoids"),
      <<(<<"nonflavanoid", "phenols">>)>>, Name("proanthocyanins"),
      <<(<<"color", "intensity">>)>>, Name("hue"),
      <<(<<"od280/od315", "of", "diluted", "wines">>)>>, Name("proline"),
      Name("target")>>

\* handle_missing_values: no column has a missing cell, so columns_with_missing is
\* empty and df is returned as it is
handle_missing_values(df) == df

\* LabelEncoder.fit_transform on a column of two cells: the index of each cell
\* among the sorted distinct cells
label_encode(v) ==
    LET a == v.cells[1]
        b == v.cells[2] IN
    Data(IF a < b THEN <<0, 1>> ELSE IF a > b THEN <<1, 0>> ELSE <<0, 0>>)

\* encode_categorical_features: every column of dtype object is encoded; a column
\* of two rows has at most two distinct values, which is the LabelEncoder branch
encode_categorical_features(df) ==
    [i \in 1..Len(df) |->
       IF df[i].dtype = "object"
         THEN Col(df[i].name, "number", label_encode(df[i].values))
         ELSE df[i]]

\* itertools.combinations(range(1, n + 1), 2): the pairs (i, j) with i < j in
\* lexicographic order
combinations(n) ==
    SelectSeq([k \in 1..(n * n) |-> <<((k - 1) \div n) + 1, ((k - 1) % n) + 1>>],
              LAMBDA p : p[1] < p[2])

\* the product of two columns, cell by cell
times(x, y) ==
    IF x.kind = "data" /\ y.kind = "data"
      THEN Data(<<x.cells[1] * y.cells[1], x.cells[2] * y.cells[2]>>)
      ELSE Term(<<"product">>)

\* PolynomialFeatures(degree=2, include_bias=False, interaction_only=True) on the
\* columns cols: the columns themselves, then the product of every pair; a
\* product is named by get_feature_names_out with the two names joined by a space
polynomial_features(df, cols) ==
    LET n == Len(cols)
        ps == combinations(n) IN
    [i \in 1..n |-> [name |-> cols[i], values |-> column(df, cols[i]).values]]
    \o [k \in 1..Len(ps) |->
         [name |-> cols[ps[k][1]] \o cols[ps[k][2]],
          values |-> times(column(df, cols[ps[k][1]]).values,
                           column(df, cols[ps[k][2]]).values)]]

\* interaction_indices: the features whose name holds exactly one space
interaction_features(poly) == SelectSeq(poly, LAMBDA f : count_spaces(f.name) = 1)

\* The loop over interaction_names that assigns the interaction_ columns, feats
\* being the features in the loop's order.  A name that is already a column keeps
\* its place, a new name is appended where the loop first assigns it, and each
\* assigned column holds what the loop assigned to it last.
add_interactions(df, feats) ==
    LET name_of(k) == interaction_name(replace_spaces(feats[k].name))
        last(name) == CHOOSE k \in 1..Len(feats) :
                        /\ name_of(k) = name
                        /\ \A j \in (k + 1)..Len(feats) : name_of(j) # name
        assigned(name) == \E k \in 1..Len(feats) : name_of(k) = name
        firsts == SelectSeq([k \in 1..Len(feats) |-> k],
                            LAMBDA k : /\ ~HasColumn(df, name_of(k))
                                       /\ \A j \in 1..(k - 1) : name_of(j) # name_of(k))
    IN [i \in 1..Len(df) |->
          IF assigned(df[i].name)
            THEN Col(df[i].name, "number", feats[last(df[i].name)].values)
            ELSE df[i]]
       \o [q \in 1..Len(firsts) |->
            Col(name_of(firsts[q]), "number", feats[last(name_of(firsts[q]))].values)]

\* the branch of engineer_features for iris and wine
engineer_interactions(df) ==
    LET numeric_cols == remove_targets(numeric_columns(df)) IN
    IF Len(numeric_cols) >= 2
      THEN add_interactions(df, interaction_features(polynomial_features(df, numeric_cols)))
      ELSE df

\* the branch of engineer_features for california_housing
engineer_california(df) ==
    LET d1 == IF HasColumn(df, Name("AveRooms")) /\ HasColumn(df, Name("AveBedrms"))
                THEN set_column(df, Name("RoomsToBedrooms"), Term(<<"RoomsToBedrooms">>))
                ELSE df
        d2 == IF HasColumn(df, Name("Population")) /\ HasColumn(df, Name("AveOccup"))
                THEN set_column(d1, Name("PopulationDensity"),
                                Term(<<"PopulationDensity">>))
                ELSE d1
    IN IF HasColumn(df, Name("Latitude")) /\ HasColumn(df, Name("Longitude"))
         THEN set_column(d2, Name("DistanceFromCenter"), Term(<<"DistanceFromCenter">>))
         ELSE d2

\* the sum of row r over the columns cs, from column i on
RECURSIVE row_sum(_, _, _)
row_sum(cs, r, i) ==
    IF i > Len(cs) THEN 0 ELSE cs[i].values.cells[r] + row_sum(cs, r, i + 1)

\* df[numeric_cols].sum(axis=1)
sum_columns(df) ==
    LET cs == SelectSeq(df, LAMBDA c : c.dtype = "number") IN
    IF \A i \in 1..Len(cs) : cs[i].values.kind = "data"
      THEN Data(<<row_sum(cs, 1, 1), row_sum(cs, 2, 1)>>)
      ELSE Term(<<"sum">>)

\* the general part of engineer_features: the three aggregates over the numeric
\* columns the frame has before feature_sum is added
engineer_aggregates(df) ==
    IF Len(numeric_columns(df)) > 2
      THEN set_column(
             set_column(
               set_column(df, <<(<<"feature", "sum">>)>>, sum_columns(df)),
               <<(<<"feature", "mean">>)>>, Term(<<"mean">>)),
             <<(<<"feature", "std">>)>>, Term(<<"std">>))
      ELSE df

\* engineer_features(df, dataset_name)
engineer_features(df, dataset_name) ==
    engineer_aggregates(
      IF dataset_name = "california_housing" THEN engineer_california(df)
      ELSE IF dataset_name \in {"iris", "wine"} THEN engineer_interactions(df)
      ELSE df)

\* StandardScaler.fit_transform on a column of two cells a, b: the mean is
\* (a+b)/2 and the deviation |a-b|/2, so the cells become 1 and -1 in the order
\* of a and b; a constant column has scale 1 and becomes 0
standard_scale(v) ==
    IF v.kind = "data"
      THEN LET a == v.cells[1]
               b == v.cells[2] IN
           Data(IF a < b THEN <<0 - 1, 1>> ELSE IF a > b THEN <<1, 0 - 1>> ELSE <<0, 0>>)
      ELSE Term(<<"standard">> \o v.term)

\* scale_features(df, method='standard')
scale_features(df) ==
    LET numeric_cols == remove_targets(numeric_columns(df)) IN
    IF numeric_cols = <<>> THEN df
    ELSE [i \in 1..Len(df) |->
            IF df[i].name \in SeqToSet(numeric_cols)
              THEN Col(df[i].name, "number", standard_scale(df[i].values))
              ELSE df[i]]

\* select_features' auto-detection: the first candidate that is a column, <<>>
\* (None) when there is none
RECURSIVE detect_target(_, _, _)
detect_target(cands, df, i) ==
    IF i > Len(cands) THEN <<>>
    ELSE IF HasColumn(df, cands[i]) THEN cands[i]
    ELSE detect_target(cands, df, i + 1)

target_candidates ==
    <<Name("target"), Name("label"), Name("class"), Name("y"), Name("price"),
      Name("MedHouseVal")>>

\* SelectKBest.get_support(): the last k indices of the stable ascending argsort
\* of the scores
get_support(scores, k) ==
    {i \in DOMAIN scores :
       Cardinality({j \in DOMAIN scores :
                      scores[j] > scores[i] \/ (scores[j] = scores[i] /\ j > i)}) < k}

\* a select_features called without k=15, which selects its default of 10
SelectFeaturesDefaultK(df, k, scores) ==
    LET target_column == detect_target(target_candidates, df, 1) IN
    IF target_column = <<>> THEN df
    ELSE LET X == drop_column(df, target_column)
             y == column(df, target_column)
             kk == IF 10 < Len(X) THEN 10 ELSE Len(X)
             support == get_support(scores, kk)
             idxs == SelectSeq([i \in 1..Len(X) |-> i], LAMBDA i : i \in support)
         IN Append([i \in 1..Len(idxs) |-> X[idxs[i]]],
                   Col(target_column, y.dtype, y.values))

\* select_features(df, k=k), scores being what the score function gives the
\* columns of X
select_features(df, k, scores) ==
    LET target_column == detect_target(target_candidates, df, 1) IN
    IF target_column = <<>> THEN df
    ELSE LET X == drop_column(df, target_column)
             y == column(df, target_column)
             kk == IF k < Len(X) THEN k ELSE Len(X)
             support == get_support(scores, kk)
             idxs == SelectSeq([i \in 1..Len(X) |-> i], LAMBDA i : i \in support)
         IN Append([i \in 1..Len(idxs) |-> X[idxs[i]]],
                   Col(target_column, y.dtype, y.values))

\* process_dataset has not been called
NoFE ==
    /\ fe_name = "none"
    /\ fe_step = "idle"
    /\ fe_df = <<>>
    /\ fe_prev = <<>>
    /\ fe_log = <<>>

\* the column names of data/raw/{d}.csv as data_prep writes it
RawColumns(d) ==
    CASE d = "california_housing" -> CaliforniaColumns
      [] d = "iris" -> IrisColumns
      [] OTHER -> WineColumns

\* Inputs: the two cells of a target column
TargetCells == {<<0, 1>>, <<1, 3>>, <<0 - 1, 1>>}

\* the cells of the i-th column of a raw CSV
FeatureCells(i) == <<i, (3 * i) % 5>>

\* Inputs: the columns a raw CSV that did not come from data_prep may have, in
\* this order: names with and without spaces and underscores, with and without a
\* target candidate, one of them holding strings
Pool ==
    <<[name |-> Name("target"), dtype |-> "number"],
      [name |-> Name("price"), dtype |-> "number"],
      [name |-> Name("a"), dtype |-> "number"],
      [name |-> <<(<<"b", "c">>)>>, dtype |-> "number"],
      [name |-> <<(<<"a", "b">>)>>, dtype |-> "number"],
      [name |-> Name("c"), dtype |-> "number"],
      [name |-> <<(<<"d">>), (<<"e">>)>>, dtype |-> "number"],
      [name |-> Name("f"), dtype |-> "number"],
      [name |-> Name("g"), dtype |-> "object"]>>

\* a frame read from a CSV with the columns hs (name and dtype), tc being the cells
\* of its target columns
RawFrame(hs, tc) ==
    [i \in 1..Len(hs) |->
       Col(hs[i].name, hs[i].dtype,
           Data(IF hs[i].name \in SeqToSet(target_candidates) THEN tc
                ELSE FeatureCells(i)))]

\* Inputs: the headers of data/raw/{d}.csv: those data_prep writes, or up to
\* MaxFECols columns of the pool
Headers(d) ==
    {[i \in 1..Len(RawColumns(d)) |-> [name |-> RawColumns(d)[i], dtype |-> "number"]]}
    \cup {SelectSeq(Pool, LAMBDA h : h \in S) :
            S \in {T \in SUBSET SeqToSet(Pool) : Cardinality(T) \in 1..MaxFECols}}

\* Inputs: the scores SelectKBest's score function gives n columns
ScoreVectors(n) ==
    {[i \in 1..n |-> i], [i \in 1..n |-> n - i], [i \in 1..n |-> 0],
     [i \in 1..n |-> i % 2]}

\* process_dataset: the step that follows `step` on the frame df
next_step(step, df) ==
    CASE step = "loaded" -> "missing"
      [] step = "missing" -> "encoded"
      [] step = "encoded" -> "engineered"
      [] step = "engineered" -> "scaled"
      [] step = "scaled" -> IF Len(df) > SelectThreshold THEN "selected" ELSE "saved"
      [] step = "selected" -> "saved"
      [] OTHER -> "none"

\* df = engineer.load_raw_data(dataset_name)
FeLoad ==
    /\ fe_step = "idle"
    /\ \E d \in DatasetSet : \E hs \in Headers(d) : \E tc \in TargetCells :
         /\ fe_name' = d
         /\ fe_df' = RawFrame(hs, tc)
    /\ fe_step' = "loaded"
    /\ fe_prev' = <<>>
    /\ fe_log' = <<"loaded">>
    /\ UNCHANGED <<pvars, mlvars, anvars, spvars>>

\* df = engineer.handle_missing_values(df)
FeMissing ==
    /\ next_step(fe_step, fe_df) = "missing"
    /\ fe_df' = handle_missing_values(fe_df)
    /\ fe_prev' = fe_df
    /\ fe_step' = "missing"
    /\ fe_log' = Append(fe_log, "missing")
    /\ UNCHANGED fe_name
    /\ UNCHANGED <<pvars, mlvars, anvars, spvars>>

\* df = engineer.encode_categorical_features(df)
FeEncode ==
    /\ next_step(fe_step, fe_df) = "encoded"
    /\ fe_df' = encode_categorical_features(fe_df)
    /\ fe_prev' = fe_df
    /\ fe_step' = "encoded"
    /\ fe_log' = Append(fe_log, "encoded")
    /\ UNCHANGED fe_name
    /\ UNCHANGED <<pvars, mlvars, anvars, spvars>>

\* df = engineer.engineer_features(df, dataset_name)
FeEngineer ==
    /\ next_step(fe_step, fe_df) = "engineered"
    /\ fe_df' = engineer_features(fe_df, fe_name)
    /\ fe_prev' = fe_df
    /\ fe_step' = "engineered"
    /\ fe_log' = Append(fe_log, "engineered")
    /\ UNCHANGED fe_name
    /\ UNCHANGED <<pvars, mlvars, anvars, spvars>>

\* df = engineer.scale_features(df, method='standard')
FeScale ==
    /\ next_step(fe_step, fe_df) = "scaled"
    /\ fe_df' = scale_features(fe_df)
    /\ fe_prev' = fe_df
    /\ fe_step' = "scaled"
    /\ fe_log' = Append(fe_log, "scaled")
    /\ UNCHANGED fe_name
    /\ UNCHANGED <<pvars, mlvars, anvars, spvars>>

\* if df.shape[1] > 15: df = engineer.select_features(df, k=15)
FeSelect ==
    /\ next_step(fe_step, fe_df) = "selected"
    /\ \E scores \in ScoreVectors(Len(fe_df) - 1) :
         fe_df' = select_features(fe_df, SelectK, scores)
    /\ fe_prev' = fe_df
    /\ fe_step' = "selected"
    /\ fe_log' = Append(fe_log, "selected")
    /\ UNCHANGED fe_name
    /\ UNCHANGED <<pvars, mlvars, anvars, spvars>>

\* engineer.save_processed_data(df, dataset_name): df.to_csv(processed_path)
FeSave ==
    /\ next_step(fe_step, fe_df) = "saved"
    /\ fe_step' = "saved"
    /\ fe_log' = Append(fe_log, "saved")
    /\ UNCHANGED <<fe_name, fe_df, fe_prev>>
    /\ UNCHANGED <<pvars, mlvars, anvars, spvars>>

(***************************************************************************)
(* train_model.py                                                          *)
(***************************************************************************)
\* a load_processed_data without the fallback to the raw CSV
LoadProcessedOnly(d) == IF d \in processed THEN "processed" ELSE "none"

\* load_processed_data: processed CSV if it exists, else raw CSV, else
\* FileNotFoundError ("none")
load_processed_data(d) ==
    IF d \in processed THEN "processed"
    ELSE IF d \in raw THEN "raw"
    ELSE "none"

TrainOutcomes == {"ok", "fit_fail", "save_fail"}
\* "prepare": a call before the model loop raises (read_csv, prepare_data,
\* train_test_split, the scaler); "save_mkdir", "save_write": save_training_results
\* raises before, or after, it has opened the results file for writing
TrainFaults == {"prepare", "save_mkdir", "save_write"}

\* train_models' loop from model i on.  outc[i] is what happens to model i:
\* "ok"; "fit_fail": fit, predict or scoring raises, before results[model_name] is
\* assigned; "save_fail": makedirs or joblib.dump raises, after it is assigned.
RECURSIVE train_loop(_, _, _)
train_loop(ms, outc, i) ==
    IF i > Len(ms) THEN [attempted |-> <<>>, results |-> <<>>, saved |-> {}]
    ELSE LET rest == train_loop(ms, outc, i + 1) IN
         [attempted |-> <<ms[i]>> \o rest.attempted,
          results |-> (IF outc[i] \in {"ok", "save_fail"} THEN <<ms[i]>> ELSE <<>>)
                      \o rest.results,
          saved |-> (IF outc[i] = "ok" THEN {ms[i]} ELSE {}) \cup rest.saved]

\* a loop that stops at the first failing model instead of continuing
RECURSIVE train_loop_abort(_, _, _)
train_loop_abort(ms, outc, i) ==
    IF i > Len(ms) THEN [attempted |-> <<>>, results |-> <<>>, saved |-> {}]
    ELSE LET rest == IF outc[i] = "ok" THEN train_loop_abort(ms, outc, i + 1)
                     ELSE [attempted |-> <<>>, results |-> <<>>, saved |-> {}] IN
         [attempted |-> <<ms[i]>> \o rest.attempted,
          results |-> (IF outc[i] \in {"ok", "save_fail"} THEN <<ms[i]>> ELSE <<>>)
                      \o rest.results,
          saved |-> (IF outc[i] = "ok" THEN {ms[i]} ELSE {}) \cup rest.saved]

TrainModelsAbort(problem_type, outc) ==
    train_loop_abort(create_models(problem_type, xgboost), outc, 1)

\* train_models(X, y, problem_type, dataset_name), after the split and scaling
train_models(problem_type, outc) ==
    train_loop(create_models(problem_type, xgboost), outc, 1)

\* train_dataset without its except clause: every exception leaves the function
TrainDatasetNoExcept(d, fault, outc) ==
    LET src == load_processed_data(d)
        pt == ProblemTypeOf(d)
        tm == train_models(pt, outc)
        none == <<>>
    IN
    IF src = "none" \/ fault = "prepare"
      THEN [ret |-> "raise", saved |-> {}, res |-> trainres[d],
            rec |-> CallRec(d, FALSE, IF src = "none" THEN "not_found" ELSE fault,
                            src, none, none)]
    ELSE IF tm.results = <<>> \/ fault \in {"save_mkdir", "save_write"}
      THEN [ret |-> "raise", saved |-> tm.saved, res |-> trainres[d],
            rec |-> CallRec(d, FALSE, fault, src, tm.attempted, outc)]
    ELSE [ret |-> "True", saved |-> tm.saved,
          res |-> [state |-> "ok", problem_type |-> pt,
                   models_trained |-> Len(tm.results), results |-> tm.results],
          rec |-> CallRec(d, TRUE, "none", src, tm.attempted, outc)]

\* a train_dataset whose save_training_results writes the document of an empty
\* results dict (best_model left out) instead of raising
TrainDatasetSaveEmpty(d, fault, outc) ==
    LET src == load_processed_data(d)
        pt == ProblemTypeOf(d)
        tm == train_models(pt, outc)
        none == <<>>
    IN
    IF src = "none"
      THEN [ret |-> "False", saved |-> {}, res |-> trainres[d],
            rec |-> CallRec(d, FALSE, "not_found", src, none, none)]
    ELSE IF fault = "prepare"
      THEN [ret |-> "False", saved |-> {}, res |-> trainres[d],
            rec |-> CallRec(d, FALSE, fault, src, none, none)]
    ELSE IF fault = "save_mkdir"
      THEN [ret |-> "False", saved |-> tm.saved, res |-> trainres[d],
            rec |-> CallRec(d, FALSE, fault, src, tm.attempted, outc)]
    ELSE IF fault = "save_write"
      THEN [ret |-> "False", saved |-> tm.saved, res |-> Corrupt,
            rec |-> CallRec(d, FALSE, fault, src, tm.attempted, outc)]
    ELSE [ret |-> "True", saved |-> tm.saved,
          res |-> [state |-> "ok", problem_type |-> pt,
                   models_trained |-> Len(tm.results), results |-> tm.results],
          rec |-> CallRec(d, TRUE, "none", src, tm.attempted, outc)]

\* train_dataset(dataset_name) with a fault raised at step `fault` and the models'
\* outcomes outc.  saved: the artifacts written; res: the training-results file
\* afterwards.
train_dataset(d, fault, outc) ==
    LET src == load_processed_data(d)
        pt == ProblemTypeOf(d)
        tm == train_models(pt, outc)
        none == <<>>
    IN
    IF src = "none"
      THEN [ret |-> "False", saved |-> {}, res |-> trainres[d],
            rec |-> CallRec(d, FALSE, "not_found", src, none, none)]
    ELSE IF fault = "prepare"
      THEN [ret |-> "False", saved |-> {}, res |-> trainres[d],
            rec |-> CallRec(d, FALSE, fault, src, none, none)]
    ELSE IF tm.results = <<>>
      \* save_training_results: min()/max() of an empty sequence raises ValueError
      \* before the file is opened
      THEN [ret |-> "False", saved |-> tm.saved, res |-> trainres[d],
            rec |-> CallRec(d, FALSE, "empty_results", src, tm.attempted, outc)]
    ELSE IF fault = "save_mkdir"
      THEN [ret |-> "False", saved |-> tm.saved, res |-> trainres[d],
            rec |-> CallRec(d, FALSE, fault, src, tm.attempted, outc)]
    ELSE IF fault = "save_write"
      \* open(results_path, 'w') has truncated the file, the dump raises
      THEN [ret |-> "False", saved |-> tm.saved, res |-> Corrupt,
            rec |-> CallRec(d, FALSE, fault, src, tm.attempted, outc)]
    ELSE [ret |-> "True", saved |-> tm.saved,
          res |-> [state |-> "ok", problem_type |-> pt,
                   models_trained |-> Len(tm.results), results |-> tm.results],
          rec |-> CallRec(d, TRUE, "none", src, tm.attempted, outc)]

train_main_return(n) == IF n > 0 THEN 0 ELSE 1


(***************************************************************************)
(* evaluate_model.py                                                       *)
(***************************************************************************)
\* load_test_data: processed CSV if it exists, else pd.read_csv(raw_path), which
\* raises FileNotFoundError ("none") when the raw CSV is absent too
load_test_data(d) ==
    IF d \in processed THEN "processed"
    ELSE IF d \in raw THEN "raw"
    ELSE "none"

\* "read_results": reading the training results raises; "prepare": a call between
\* that and the model loop raises (read_csv, drop, train_test_split); "save_eval":
\* writing the evaluation results raises; "plots": create_evaluation_plots raises
EvalFaults == {"read_results", "prepare", "save_eval", "plots"}

\* what the try block of the model loop does with model m of dataset d:
\* load_model raises FileNotFoundError when the artifact is absent
eval_outcome(m, d, o) == IF eval_model_path(m, d) \notin models THEN "missing" ELSE o

\* the model loop of evaluate_dataset_models from model i on; outc[i] is "ok" or
\* "predict_fail" (predict or a metric raises)
RECURSIVE eval_loop(_, _, _, _)
eval_loop(ms, d, outc, i) ==
    IF i > Len(ms) THEN [attempted |-> <<>>, outcomes |-> <<>>, metrics_list |-> <<>>]
    ELSE LET rest == eval_loop(ms, d, outc, i + 1)
             o == eval_outcome(ms[i], d, outc[i]) IN
         [attempted |-> <<ms[i]>> \o rest.attempted,
          outcomes |-> <<o>> \o rest.outcomes,
          metrics_list |-> (IF o = "ok" THEN <<ms[i]>> ELSE <<>>) \o rest.metrics_list]

\* for model_name in training_results['results'].keys(): ...
eval_models(d, outc) == eval_loop(trainres[d].results, d, outc, 1)

\* evaluate_dataset(dataset_name) = evaluate_dataset_models(dataset_name): neither
\* has a try block around the steps outside the model loop.  wrote: whether
\* evaluation_results_{d}.json was written.
evaluate_dataset(d, fault, outc) ==
    LET tr == trainres[d]
        src == load_test_data(d)
        em == eval_models(d, outc)
        none == <<>>
    IN
    IF tr.state = "absent"
      \* load_training_results returns None
      THEN [ret |-> "False", wrote |-> FALSE,
            rec |-> CallRec(d, FALSE, "no_results", "none", none, none)]
    ELSE IF tr.state = "corrupt"
      \* json.load raises JSONDecodeError
      THEN [ret |-> "raise", wrote |-> FALSE,
            rec |-> CallRec(d, FALSE, "bad_results", "none", none, none)]
    ELSE IF fault = "read_results"
      THEN [ret |-> "raise", wrote |-> FALSE,
            rec |-> CallRec(d, FALSE, fault, "none", none, none)]
    ELSE IF src = "none"
      THEN [ret |-> "raise", wrote |-> FALSE,
            rec |-> CallRec(d, FALSE, "not_found", src, none, none)]
    ELSE IF fault = "prepare"
      THEN [ret |-> "raise", wrote |-> FALSE,
            rec |-> CallRec(d, FALSE, fault, src, none, none)]
    ELSE IF em.metrics_list = <<>>
      THEN [ret |-> "False", wrote |-> FALSE,
            rec |-> CallRec(d, FALSE, "no_metrics", src, em.attempted, em.outcomes)]
    ELSE IF fault = "save_eval"
      THEN [ret |-> "raise", wrote |-> FALSE,
            rec |-> CallRec(d, FALSE, fault, src, em.attempted, em.outcomes)]
    ELSE IF fault = "plots"
      \* create_evaluation_plots raises after the evaluation results were written
      THEN [ret |-> "raise", wrote |-> TRUE,
            rec |-> CallRec(d, FALSE, fault, src, em.attempted, em.outcomes)]
    ELSE [ret |-> "True", wrote |-> TRUE,
          rec |-> CallRec(d, TRUE, "none", src, em.attempted, em.outcomes)]

\* a main() that returns 0 whatever the counter is
EvalMainReturnZero(n) == 0

eval_main_return(n) == IF n > 0 THEN 0 ELSE 1

(***************************************************************************)
(* data_prep.py                                                            *)
(***************************************************************************)
\* main() ends with `return 0`, whatever len(datasets) is
prep_main_return(n) == 0


(***************************************************************************)
(* Data preparation in train_model.py and evaluate_model.py: the target    *)
(* column, the train/test split and the rows the scaler is fitted on.      *)
(* Rows are numbered 1..nrows in file order.                               *)
(***************************************************************************)
ColumnNames == {"target", "label", "MedHouseVal", "sepal_length"}

Injective(q) == \A i, j \in 1..Len(q) : q[i] = q[j] => i = j

Frames ==
    [columns : {q \in UNION {[1..k -> ColumnNames] : k \in 1..MaxCols} : Injective(q)},
     nrows : 1..MaxSplitRows]

RowOrders(n) == {q \in [1..n -> 1..n] : Injective(q)}

\* the first name of cands, from position i on, that is a column; else the last column
RECURSIVE first_candidate(_, _, _)
first_candidate(cands, columns, i) ==
    IF i > Len(cands) THEN columns[Len(columns)]
    ELSE IF cands[i] \in SeqToSet(columns) THEN cands[i]
    ELSE first_candidate(cands, columns, i + 1)

\* prepare_data: target_candidates and the loop over them, else df.columns[-1]
train_target(columns) ==
    first_candidate(<<"target", "label", "class", "y", "price", "MedHouseVal">>, columns, 1)

\* an evaluate_model that always takes the last column as the target
EvalTargetLast(columns) == columns[Len(columns)]

\* evaluate_dataset_models: target_candidates and the loop over them, else
\* df.columns[-1]
eval_target(columns) ==
    first_candidate(<<"target", "label", "class", "y", "price", "MedHouseVal">>, columns, 1)

\* test_size=0.2: n_test = ceil(0.2 * n)
NTest(n) == (n + 4) \div 5

\* train_test_split(X, y, test_size=0.2, random_state=42) on n rows, perm being
\* the permutation drawn for that random_state: the first n_test rows of perm are
\* the test set, the others the training set; ValueError when the training set
\* would be empty
train_test_split(n, perm) ==
    IF n - NTest(n) = 0
      THEN [raised |-> TRUE, train |-> <<>>, test |-> <<>>]
      ELSE [raised |-> FALSE, train |-> SubSeq(perm, NTest(n) + 1, n),
            test |-> SubSeq(perm, 1, NTest(n))]

NotRun == [run |-> FALSE]

\* train_dataset up to the scaler of train_models: prepare_data, the split,
\* scaler.fit_transform(X_train)
train_prepare(f, perm) ==
    LET sp == train_test_split(f.nrows, perm) IN
    [run |-> TRUE, raised |-> sp.raised, target |-> train_target(f.columns),
     test |-> sp.test, train |-> sp.train,
     scaler_rows |-> SeqToSet(sp.train)]

\* evaluate_dataset_models up to the scaler of a scaled model: the target, the
\* split, scaler.fit_transform(X.iloc[:-len(y_test)])
eval_prepare(f, perm) ==
    LET sp == train_test_split(f.nrows, perm) IN
    [run |-> TRUE, raised |-> sp.raised, target |-> eval_target(f.columns),
     test |-> sp.test,
     scaler_rows |-> IF sp.raised THEN {} ELSE 1..(f.nrows - Len(sp.test))]

\* no frame is being prepared
NoFrame ==
    /\ frame = [columns |-> <<"target">>, nrows |-> 1]
    /\ permutation = <<1>>
    /\ sp_train = NotRun
    /\ sp_eval = NotRun

\* train_model reaches the model loop on the frame
TrainPrepare ==
    /\ ~sp_train.run
    /\ sp_train' = train_prepare(frame, permutation)
    /\ UNCHANGED <<frame, permutation, sp_eval>>
    /\ UNCHANGED <<pvars, mlvars, anvars, fevars>>

\* evaluate_model reaches a scaled model of its model loop on the frame
EvalPrepare ==
    /\ ~sp_eval.run
    /\ sp_eval' = eval_prepare(frame, permutation)
    /\ UNCHANGED <<frame, permutation, sp_train>>
    /\ UNCHANGED <<pvars, mlvars, anvars, fevars>>

(***************************************************************************)
(* 03-multi-language-build/python-ml/analyze.py                            *)
(*                                                                         *)
(* A JSON value is a record with its type; a field of the body is <<>> when *)
(* absent and <<value>> when present.                                      *)
(***************************************************************************)
JDict(n) == [type |-> "dict", val |-> n]      \* an object with n fields
JNumber(t) == [type |-> "number", val |-> t]
JNull == [type |-> "null", val |-> 0]
JString == [type |-> "string", val |-> 0]

Optional(S) == {<<>>} \cup {<<v>> : v \in S}

\* the JSON objects the backend can send
Bodies ==
    [data : Optional({JDict(n) : n \in 0..MaxFields} \cup {JNull}),
     timestamp : Optional({JNumber(t) : t \in 0..MaxClock} \cup {JString}),
     language : Optional({"rust", "go"})]

\* what requests.get(...), raise_for_status() and response.json() can end in
Answers ==
    {[kind |-> k, body |-> <<>>] :
        k \in {"connection_error", "read_timeout", "http_error", "not_json", "json_list"}}
    \cup {[kind |-> "object", body |-> <<b>>] : b \in Bodies}

\* dict.get(key, default) on the field of that key
dict_get(field, default) == IF field = <<>> THEN default ELSE field[1]

\* an analyze_api_response that indexes data['data'] and data['timestamp']:
\* KeyError for an absent key
AnalyzeIndexing(body, now) ==
    IF body.data = <<>> \/ body.timestamp = <<>>
         \/ body.data[1].type # "dict" \/ body.timestamp[1].type # "number"
      THEN [raised |-> TRUE, fields |-> 0, timestamp |-> 0]
      ELSE [raised |-> FALSE, fields |-> body.data[1].val,
            timestamp |-> body.timestamp[1].val]

\* analyze_api_response(data) at time now; len(api_data) and
\* time.time() - timestamp raise TypeError on values of another type
analyze_api_response(body, now) ==
    LET api_data == dict_get(body.data, JDict(0))
        timestamp == dict_get(body.timestamp, JNumber(now)) IN
    IF api_data.type # "dict" \/ timestamp.type # "number"
      THEN [raised |-> TRUE, fields |-> 0, timestamp |-> 0]
      ELSE [raised |-> FALSE, fields |-> api_data.val, timestamp |-> timestamp.val]

FetchFailed(error) ==
    [success |-> FALSE, error |-> error, fields |-> 0, timestamp |-> 0,
     backend_language |-> "none"]

\* fetch_and_analyze_metrics() given the answer to its GET
fetch_and_analyze_metrics(answer, now) ==
    IF answer.kind = "connection_error" THEN FetchFailed("Backend connection failed")
    ELSE IF answer.kind # "object" THEN FetchFailed(answer.kind)
    ELSE LET body == answer.body[1]
             analysis == analyze_api_response(body, now) IN
         IF analysis.raised THEN FetchFailed("TypeError")
         ELSE [success |-> TRUE, error |-> "none", fields |-> analysis.fields,
               timestamp |-> analysis.timestamp,
               backend_language |-> dict_get(body.language, "unknown")]

\* main(): return 0 if combined_results.get('success', True) else 1
analyze_main_return(result) == IF result.success THEN 0 ELSE 1

NoAnswer == [kind |-> "none", body |-> <<>>, now |-> 0]
NoResult == [success |-> FALSE, error |-> "not called", fields |-> 0, timestamp |-> 0,
             backend_language |-> "none"]

\* no analyze.py process is running
AnIdle(runs) ==
    /\ an_pc = "idle"
    /\ an_gets = 0
    /\ an_answer = NoAnswer
    /\ an_result = NoResult
    /\ an_exit = NoCode
    /\ an_runs = runs

\* python3 analyze.py: main() calls fetch_and_analyze_metrics, which issues
\* requests.get(BACKEND_URL/metrics, timeout=5)
AnGet ==
    /\ an_pc = "idle" /\ an_runs > 0
    /\ an_runs' = an_runs - 1
    /\ an_pc' = "waiting"
    /\ an_gets' = an_gets + 1
    /\ UNCHANGED <<an_answer, an_result, an_exit>>
    /\ UNCHANGED <<pvars, mlvars, spvars, fevars>>

\* the GET ends (answer or exception) at time now and fetch_and_analyze_metrics
\* returns
AnFetched ==
    /\ an_pc = "waiting"
    /\ \E answer \in Answers, now \in 0..MaxClock :
         /\ an_answer' = [kind |-> answer.kind, body |-> answer.body, now |-> now]
         /\ an_result' = fetch_and_analyze_metrics(answer, now)
    /\ an_pc' = "fetched"
    /\ UNCHANGED <<an_gets, an_exit, an_runs>>
    /\ UNCHANGED <<pvars, mlvars, spvars, fevars>>

\* the rest of main(): build metrics, display, export, return
AnReturn ==
    /\ an_pc = "fetched"
    /\ an_exit' = analyze_main_return(an_result)
    /\ an_pc' = "returned"
    /\ UNCHANGED <<an_gets, an_answer, an_result, an_runs>>
    /\ UNCHANGED <<pvars, mlvars, spvars, fevars>>

\* sys.exit(exit_code)
AnExit ==
    /\ an_pc = "returned"
    /\ an_pc' = "idle"
    /\ an_gets' = 0
    /\ an_answer' = NoAnswer
    /\ an_result' = NoResult
    /\ an_exit' = NoCode
    /\ UNCHANGED an_runs
    /\ UNCHANGED <<pvars, mlvars, spvars, fevars>>

(***************************************************************************)
(* ml_models/classifier.py and ml_models/predictor.py                      *)
(*                                                                         *)
(* A feature matrix is represented by its number of rows.  The fitted      *)
(* forest's answer for a row is chosen when it is asked: each of the       *)
(* n_estimators trees votes for one class seen in training, and the        *)
(* probability of a class is its number of votes out of n_estimators.  A   *)
(* probability row is the sequence of the classes' vote counts.            *)
(***************************************************************************)
\* self.labels = ['cats', 'dogs', 'birds', 'fish']
labels == <<"cats", "dogs", "birds", "fish">>

\* get_predictions(self, features, top_k=3)
DefaultTopK == 3

MaxRows == 2      \* rows of a feature matrix
MaxBatch == 2     \* feature matrices in a batch
MaxTopK == 5      \* largest top_k passed to get_predictions

\* n_estimators passed to ImageClassifier(...)
TreeCounts == {1, 2}

\* the sets of label values in the y passed to train
TrainLabelSets == {{0}, {0, 1}, {0, 1, 2}, {0, 1, 2, 3}, {0, 1, 2, 3, 4}, {1, 3}}

RECURSIVE SumSeq(_)
SumSeq(s) == IF s = <<>> THEN 0 ELSE Head(s) + SumSeq(Tail(s))

RECURSIVE SortedSeq(_)
SortedSeq(S) ==
    IF S = {} THEN <<>>
    ELSE LET m == CHOOSE x \in S : \A y \in S : x <= y IN <<m>> \o SortedSeq(S \ {m})

Reverse(s) == [i \in 1..Len(s) |-> s[Len(s) + 1 - i]]

\* ImageClassifier.__init__(n_estimators): an unfitted forest and the label list
NewClassifier(n) ==
    [n_estimators |-> n, labels |-> labels, fitted |-> FALSE, classes |-> <<>>]

\* ImageClassifier.train(X, y): fit sets classes_ to the sorted distinct values of y
train(c, ys) == [c EXCEPT !.fitted = TRUE, !.classes = SortedSeq(ys)]

\* rows the fitted forest can answer with for one sample: votes per class
ProbaRows(c) ==
    {p \in [1..Len(c.classes) -> 0..c.n_estimators] : SumSeq(p) = c.n_estimators}

\* the forest's predict_proba for n samples: the matrices it can return
ForestProba(c, n) == [1..n -> ProbaRows(c)]

\* a predict_proba that loses the last class column
PredictProbaDropColumn(c, M) == [i \in 1..Len(M) |-> SubSeq(M[i], 1, Len(M[i]) - 1)]

\* ImageClassifier.predict_proba(X): what the model answered, M, is returned as is
predict_proba(c, M) == M

\* np.argmax(row): the first index of the largest entry
ArgMax(p) == CHOOSE i \in 1..Len(p) :
    /\ \A j \in 1..Len(p) : p[j] <= p[i]
    /\ \A j \in 1..(i - 1) : p[j] < p[i]

\* a predict that returns the column of the largest probability, not its class
PredictColumnIndex(c, M) == [i \in 1..Len(M) |-> ArgMax(M[i]) - 1]

\* ImageClassifier.predict(X): the forest's predict takes, per row, the class of
\* the largest probability
predict(c, M) == [i \in 1..Len(M) |-> c.classes[ArgMax(M[i])]]

\* what joblib.dump(self.model, path) writes: the forest, without the label list
DumpedModel(c) == [n_estimators |-> c.n_estimators, fitted |-> c.fitted, classes |-> c.classes]

\* ImageClassifier.save(path): the file at path after the call
save(c) == <<DumpedModel(c)>>

\* a load that replaces the whole classifier by the dumped object, which carries
\* no label list
LoadObject(c, f) ==
    [n_estimators |-> f.n_estimators, labels |-> <<>>, fitted |-> f.fitted,
     classes |-> f.classes]

\* ImageClassifier.load(path): self.model = joblib.load(path), f the dumped forest
load(c, f) ==
    [c EXCEPT !.n_estimators = f.n_estimators, !.fitted = f.fitted, !.classes = f.classes]

\* np.argsort(proba): the indices in ascending order of their entries.  The default
\* sort is not stable: the order among equal entries is not specified, it depends
\* on the numpy build.  Two builds are modelled, the two extreme tie orders:
\* lower index first and higher index first.
TieRules == {"low_first", "high_first"}

argsort(p, rule) ==
    LET before(i, j) == \/ p[i] < p[j]
                        \/ p[i] = p[j] /\ (IF rule = "low_first" THEN i < j ELSE i > j)
        RECURSIVE build(_)
        build(S) == IF S = {} THEN <<>>
                    ELSE LET m == CHOOSE i \in S : \A j \in S \ {i} : before(i, j)
                         IN <<m>> \o build(S \ {m})
    IN build(1..Len(p))

\* the Python slice s[-k:] for k >= 0: s[-0:] is s[0:], the whole sequence
SliceLast(s, k) ==
    IF k = 0 THEN s
    ELSE IF k >= Len(s) THEN s
    ELSE SubSeq(s, Len(s) - k + 1, Len(s))

\* top_indices = np.argsort(proba)[-top_k:][::-1]
top_indices(order, top_k) == Reverse(SliceLast(order, top_k))

\* the list built for one row; labels[idx] raises IndexError for a class index
\* beyond the label list.  cls keeps the class index of each pair.
row_predictions(c, p, order, top_k) ==
    LET ti == top_indices(order, top_k) IN
    IF \E i \in 1..Len(ti) : ti[i] > Len(c.labels)
      THEN [raised |-> TRUE, preds |-> <<>>, cls |-> <<>>]
      ELSE [raised |-> FALSE,
            preds |-> [i \in 1..Len(ti) |-> <<c.labels[ti[i]], p[ti[i]]>>],
            cls |-> ti]

\* get_predictions(features, top_k) on the matrix M of predict_proba
get_predictions(c, M, rule, top_k) ==
    LET rows == [i \in 1..Len(M) |->
                    row_predictions(c, M[i], argsort(M[i], rule), top_k)] IN
    IF \E i \in 1..Len(M) : rows[i].raised
      THEN [raised |-> TRUE, results |-> <<>>, cls |-> <<>>]
      ELSE [raised |-> FALSE,
            results |-> [i \in 1..Len(M) |-> rows[i].preds],
            cls |-> [i \in 1..Len(M) |-> rows[i].cls]]

\* a batch_predict that concatenates the batches' predictions
BatchPredictFlat(rs) ==
    LET RECURSIVE flat(_)
        flat(i) == IF i > Len(rs) THEN <<>> ELSE rs[i].results \o flat(i + 1)
    IN IF \E i \in 1..Len(rs) : rs[i].raised
         THEN [raised |-> TRUE, results |-> <<>>]
         ELSE [raised |-> FALSE, results |-> flat(1)]

\* batch_predict(batch_features): the list of the get_predictions results rs, one
\* per element of the batch; an exception of one of them leaves the function
batch_predict(rs) ==
    IF \E i \in 1..Len(rs) : rs[i].raised
      THEN [raised |-> TRUE, results |-> <<>>]
      ELSE [raised |-> FALSE, results |-> [i \in 1..Len(rs) |-> rs[i].results]]

\* the model's answer to a call with n rows: NotFittedError before fit, ValueError
\* for a matrix without rows, else a matrix of probability rows
ModelRaises(c, n) == ~c.fitted \/ n = 0

NoCall == [op |-> "none"]

Raised(op, n) == [op |-> op, nrows |-> n, raised |-> TRUE]

\* classifier.train(X, y)
Train ==
    /\ call = NoCall
    /\ \E ys \in TrainLabelSets :
         /\ classifier' = train(classifier, ys)
         /\ call' = [op |-> "train", ys |-> ys]
    /\ UNCHANGED <<pvars, anvars, spvars, fevars, tie_rule, saved>>

\* classifier.predict_proba(X), X with n rows
PredictProba ==
    /\ call = NoCall
    /\ \E n \in 0..MaxRows :
         IF ModelRaises(classifier, n)
           THEN call' = Raised("predict_proba", n)
           ELSE \E M \in ForestProba(classifier, n) :
                  call' = [op |-> "predict_proba", nrows |-> n, raised |-> FALSE,
                           result |-> predict_proba(classifier, M)]
    /\ UNCHANGED <<pvars, anvars, spvars, fevars, classifier, tie_rule, saved>>

\* classifier.predict(X), X with n rows
Predict ==
    /\ call = NoCall
    /\ \E n \in 0..MaxRows :
         IF ModelRaises(classifier, n)
           THEN call' = Raised("predict", n)
           ELSE \E M \in ForestProba(classifier, n) :
                  call' = [op |-> "predict", nrows |-> n, raised |-> FALSE,
                           result |-> predict(classifier, M)]
    /\ UNCHANGED <<pvars, anvars, spvars, fevars, classifier, tie_rule, saved>>

\* the results get_predictions can have for a matrix of n rows
GetPredictionsOutcomes(c, n, top_k) ==
    IF ModelRaises(c, n)
      THEN {[raised |-> TRUE, results |-> <<>>, cls |-> <<>>, probas |-> <<>>]}
      ELSE {[raised |-> r.raised, results |-> r.results, cls |-> r.cls, probas |-> r.probas] :
              r \in {[probas |-> M] @@ get_predictions(c, predict_proba(c, M), tie_rule, top_k) :
                       M \in ForestProba(c, n)}}

\* service.get_predictions(features, top_k), features with n rows
GetPredictions ==
    /\ call = NoCall
    /\ \E n \in 0..MaxRows, k \in 0..MaxTopK :
         \E r \in GetPredictionsOutcomes(classifier, n, k) :
           call' = [op |-> "get_predictions", nrows |-> n, top_k |-> k,
                    raised |-> r.raised, probas |-> r.probas,
                    results |-> r.results, cls |-> r.cls]
    /\ UNCHANGED <<pvars, anvars, spvars, fevars, classifier, tie_rule, saved>>

\* the batches a call passes: at most MaxBatch matrices of at most MaxRows rows,
\* MaxRows + 1 rows in all
Batches ==
    {ns \in UNION {[1..b -> 0..MaxRows] : b \in 0..MaxBatch} : SumSeq(ns) <= MaxRows + 1}

\* one get_predictions result per element of the batch
RECURSIVE BatchOutcomes(_, _)
BatchOutcomes(c, ns) ==
    IF ns = <<>> THEN {<<>>}
    ELSE {<<r>> \o rest : r \in GetPredictionsOutcomes(c, Head(ns), DefaultTopK),
                          rest \in BatchOutcomes(c, Tail(ns))}

\* service.batch_predict(batch_features), the i-th matrix with ns[i] rows
BatchPredict ==
    /\ call = NoCall
    /\ \E ns \in Batches :
         \E rs \in BatchOutcomes(classifier, ns) :
           LET r == batch_predict(rs) IN
           call' = [op |-> "batch_predict", batch |-> ns, raised |-> r.raised,
                    results |-> r.results]
    /\ UNCHANGED <<pvars, anvars, spvars, fevars, classifier, tie_rule, saved>>

(***************************************************************************)
(* The processes: one run of a script at a time, as the orchestrator's     *)
(* tasks start them.                                                       *)
(***************************************************************************)
Init ==
    /\ raw = {}
    /\ processed = {}
    /\ trainres = [d \in DatasetSet |-> NoResults]
    /\ models = {}
    /\ model_src = <<>>
    /\ xgboost \in BOOLEAN
    /\ script = "none"
    /\ pc = "idle"
    /\ idx = 1
    /\ successful = 0
    /\ exitcode = NoCode
    /\ trace = <<>>
    /\ runsLeft = MaxRuns
    /\ faultsLeft = MaxFaults
    /\ classifier = NewClassifier(1)
    /\ call = NoCall
    /\ tie_rule = "low_first"
    /\ saved = <<>>
    /\ AnIdle(0)
    /\ NoFrame
    /\ NoFE

AllOk(n) == [i \in 1..n |-> "ok"]

Cost(fault) == IF fault = "none" THEN 0 ELSE 1

\* python3 <script>.py: the module is imported, then main() is entered.  In
\* train_model.py the handler of `import xgboost` calls logger.warning before
\* logger is assigned, so a missing xgboost ends the process with NameError.
Start(s) ==
    /\ script = "none"
    /\ runsLeft > 0
    /\ runsLeft' = runsLeft - 1
    /\ script' = s
    /\ pc' = IF s = "train_model" /\ ~xgboost THEN "crashed" ELSE "main"
    /\ idx' = 1
    /\ successful' = 0
    /\ exitcode' = NoCode
    /\ trace' = <<>>
    /\ UNCHANGED <<mlvars, anvars, spvars, fevars>>
    /\ UNCHANGED <<raw, processed, trainres, models, model_src, xgboost,
                   faultsLeft>>

\* data_prep.main: the idx-th of the three try blocks that download a dataset;
\* the download raises or not (not counted against faultsLeft)
PrepDownload ==
    /\ script = "data_prep" /\ pc = "main" /\ idx <= Len(datasets)
    /\ \E fault \in {"none", "download"} :
         LET d == datasets[idx] IN
         /\ raw' = IF fault = "none" THEN raw \cup {d} ELSE raw
         /\ successful' = IF fault = "none" THEN successful + 1 ELSE successful
         /\ trace' = Append(trace, CallRec(d, fault = "none", fault, "none", <<>>, <<>>))
    /\ idx' = idx + 1
    /\ UNCHANGED <<mlvars, anvars, spvars, fevars>>
    /\ UNCHANGED <<processed, trainres, models, model_src, xgboost, script, pc,
                   exitcode, runsLeft, faultsLeft>>

\* data_prep.main after the three downloads: download_external_dataset's None is
\* appended to datasets, the metadata is generated inside a try block, 0 is returned
PrepReturn ==
    /\ script = "data_prep" /\ pc = "main" /\ idx = Len(datasets) + 1
    /\ successful' = successful + 1
    /\ exitcode' = prep_main_return(successful + 1)
    /\ pc' = "returned"
    /\ UNCHANGED <<mlvars, anvars, spvars, fevars>>
    /\ UNCHANGED <<raw, processed, trainres, models, model_src, xgboost, script, idx,
                   trace, runsLeft, faultsLeft>>

\* feature_engineering.main: one iteration of `for dataset in datasets`
FEStep ==
    /\ script = "feature_engineering" /\ pc = "main" /\ idx <= Len(datasets)
    /\ \E fault \in FEFaults \cup {"none"} :
         LET d == datasets[idx]
             r == process_dataset(d, fault) IN
         /\ Cost(fault) <= faultsLeft
         /\ load_raw_data(d) = "none" => fault = "none"
         /\ faultsLeft' = faultsLeft - Cost(fault)
         /\ processed' = IF r.wrote THEN processed \cup {d} ELSE processed
         /\ trace' = Append(trace, r.rec)
         /\ successful' = IF r.ret = "True" THEN successful + 1 ELSE successful
         /\ pc' = IF r.ret = "raise" THEN "crashed" ELSE "main"
    /\ idx' = idx + 1
    /\ UNCHANGED <<mlvars, anvars, spvars, fevars>>
    /\ UNCHANGED <<raw, trainres, models, model_src, xgboost, script, exitcode,
                   runsLeft>>

FEReturn ==
    /\ script = "feature_engineering" /\ pc = "main" /\ idx = Len(datasets) + 1
    /\ exitcode' = fe_main_return(successful)
    /\ pc' = "returned"
    /\ UNCHANGED <<mlvars, anvars, spvars, fevars>>
    /\ UNCHANGED <<raw, processed, trainres, models, model_src, xgboost, script, idx,
                   successful, trace, runsLeft, faultsLeft>>

\* train_model.main: one iteration of `for dataset in datasets`
TrainStep ==
    /\ script = "train_model" /\ pc = "main" /\ idx <= Len(datasets)
    /\ LET d == datasets[idx]
           n == Len(create_models(ProblemTypeOf(d), xgboost)) IN
       \E fault \in TrainFaults \cup {"none"}, outc \in [1..n -> TrainOutcomes] :
         LET r == train_dataset(d, fault, outc) IN
         /\ Cost(fault) + TrainCost(outc) <= faultsLeft
         /\ load_processed_data(d) = "none" => fault = "none" /\ outc = AllOk(n)
         /\ fault = "prepare" => outc = AllOk(n)
         /\ train_models(ProblemTypeOf(d), outc).results = <<>> => fault = "none"
         /\ faultsLeft' = faultsLeft - (Cost(fault) + TrainCost(outc))
         /\ models' = models \cup {train_model_path(m, d) : m \in r.saved}
         /\ model_src' = [f \in models' |->
                            IF f \in {train_model_path(m, d) : m \in r.saved}
                              THEN r.rec.source ELSE model_src[f]]
         /\ trainres' = [trainres EXCEPT ![d] = r.res]
         /\ trace' = Append(trace, r.rec)
         /\ successful' = IF r.ret = "True" THEN successful + 1 ELSE successful
         /\ pc' = IF r.ret = "raise" THEN "crashed" ELSE "main"
    /\ idx' = idx + 1
    /\ UNCHANGED <<mlvars, anvars, spvars, fevars>>
    /\ UNCHANGED <<raw, processed, xgboost, script, exitcode,
                   runsLeft>>

TrainReturn ==
    /\ script = "train_model" /\ pc = "main" /\ idx = Len(datasets) + 1
    /\ exitcode' = train_main_return(successful)
    /\ pc' = "returned"
    /\ UNCHANGED <<mlvars, anvars, spvars, fevars>>
    /\ UNCHANGED <<raw, processed, trainres, models, model_src, xgboost, script, idx,
                   successful, trace, runsLeft, faultsLeft>>

\* evaluate_model.main: one iteration of `for dataset in datasets`
EvalStep ==
    /\ script = "evaluate_model" /\ pc = "main" /\ idx <= Len(datasets)
    /\ LET d == datasets[idx]
           ms == trainres[d].results
           n == Len(ms) IN
       \E fault \in EvalFaults \cup {"none"}, outc \in [1..n -> {"ok", "predict_fail"}] :
         LET r == evaluate_dataset(d, fault, outc) IN
         /\ Cost(fault) + CountBad(outc) <= faultsLeft
         /\ trainres[d].state # "ok" => fault = "none"
         /\ trainres[d].state = "ok" /\ load_test_data(d) = "none"
               => fault \in {"none", "read_results"}
         /\ fault \in {"read_results", "prepare"} \/ load_test_data(d) = "none"
               => outc = AllOk(n)
         /\ \A i \in 1..n : eval_model_path(ms[i], d) \notin models => outc[i] = "ok"
         /\ eval_models(d, outc).metrics_list = <<>>
               => fault \in {"none", "read_results", "prepare"}
         /\ faultsLeft' = faultsLeft - (Cost(fault) + CountBad(outc))
         /\ trace' = Append(trace, r.rec)
         /\ successful' = IF r.ret = "True" THEN successful + 1 ELSE successful
         /\ pc' = IF r.ret = "raise" THEN "crashed" ELSE "main"
    /\ idx' = idx + 1
    /\ UNCHANGED <<mlvars, anvars, spvars, fevars>>
    /\ UNCHANGED <<raw, processed, trainres, models, model_src, xgboost, script, exitcode,
                   runsLeft>>

EvalReturn ==
    /\ script = "evaluate_model" /\ pc = "main" /\ idx = Len(datasets) + 1
    /\ exitcode' = eval_main_return(successful)
    /\ pc' = "returned"
    /\ UNCHANGED <<mlvars, anvars, spvars, fevars>>
    /\ UNCHANGED <<raw, processed, trainres, models, model_src, xgboost, script, idx,
                   successful, trace, runsLeft, faultsLeft>>

\* exit(main()), or the interpreter ending after an uncaught exception
Exit ==
    /\ pc \in {"returned", "crashed"}
    /\ script' = "none"
    /\ pc' = "idle"
    /\ idx' = 1
    /\ successful' = 0
    /\ exitcode' = NoCode
    /\ trace' = <<>>
    /\ UNCHANGED <<mlvars, anvars, spvars, fevars>>
    /\ UNCHANGED <<raw, processed, trainres, models, model_src, xgboost,
                   runsLeft, faultsLeft>>

\* between two runs something outside the scripts removes a data file
EnvRemove ==
    /\ script = "none" /\ faultsLeft > 0
    /\ faultsLeft' = faultsLeft - 1
    /\ \/ \E d \in raw : raw' = raw \ {d} /\ UNCHANGED processed
       \/ \E d \in processed : processed' = processed \ {d} /\ UNCHANGED raw
    /\ UNCHANGED <<mlvars, anvars, spvars, fevars>>
    /\ UNCHANGED <<trainres, models, model_src, xgboost, script, pc, idx, successful,
                   exitcode, trace, runsLeft>>

Next ==
    \/ \E s \in Scripts : Start(s)
    \/ PrepDownload
    \/ PrepReturn
    \/ FEStep
    \/ FEReturn
    \/ TrainStep
    \/ TrainReturn
    \/ EvalStep
    \/ EvalReturn
    \/ Exit
    \/ EnvRemove

Spec == Init /\ [][Next]_vars

\* The same scripts started on a data directory that an earlier data_prep run has
\* filled: the three raw CSVs exist.
InitPrepared ==
    /\ raw = DatasetSet
    /\ processed = {}
    /\ trainres = [d \in DatasetSet |-> NoResults]
    /\ models = {}
    /\ model_src = <<>>
    /\ xgboost = TRUE
    /\ script = "none"
    /\ pc = "idle"
    /\ idx = 1
    /\ successful = 0
    /\ exitcode = NoCode
    /\ trace = <<>>
    /\ runsLeft = MaxRuns
    /\ faultsLeft = MaxFaults
    /\ classifier = NewClassifier(1)
    /\ call = NoCall
    /\ tie_rule = "low_first"
    /\ saved = <<>>
    /\ AnIdle(0)
    /\ NoFrame
    /\ NoFE

SpecRerun == InitPrepared /\ [][Next]_vars




(***************************************************************************)
(* The prediction service: a classifier is constructed, then trained and   *)
(* asked for predictions in any order.                                     *)
(***************************************************************************)
InitML ==
    /\ raw = {}
    /\ processed = {}
    /\ trainres = [d \in DatasetSet |-> NoResults]
    /\ models = {}
    /\ model_src = <<>>
    /\ xgboost = TRUE
    /\ script = "none"
    /\ pc = "idle"
    /\ idx = 1
    /\ successful = 0
    /\ exitcode = NoCode
    /\ trace = <<>>
    /\ runsLeft = 0
    /\ faultsLeft = 0
    /\ \E n \in TreeCounts : classifier = NewClassifier(n)
    /\ call = NoCall
    /\ tie_rule \in TieRules
    /\ saved = <<>>
    /\ AnIdle(0)
    /\ NoFrame
    /\ NoFE

\* the caller is done with the result of the last call
Return ==
    /\ call # NoCall
    /\ call' = NoCall
    /\ UNCHANGED <<pvars, anvars, spvars, fevars, classifier, tie_rule, saved>>

NextML ==
    \/ Return
    \/ Train
    \/ PredictProba
    \/ Predict
    \/ GetPredictions
    \/ BatchPredict

SpecML == InitML /\ [][NextML]_vars


(***************************************************************************)
(* The classifier alone: constructed, trained, asked, saved and loaded in  *)
(* any order.                                                              *)
(***************************************************************************)
\* ImageClassifier(n_estimators=n)
Construct ==
    /\ call = NoCall
    /\ \E n \in TreeCounts :
         /\ classifier' = NewClassifier(n)
         /\ call' = [op |-> "init", n_estimators |-> n]
    /\ UNCHANGED <<pvars, anvars, spvars, fevars, tie_rule, saved>>

\* classifier.save(path)
Save ==
    /\ call = NoCall
    /\ saved' = save(classifier)
    /\ call' = [op |-> "save"]
    /\ UNCHANGED <<pvars, anvars, spvars, fevars, classifier, tie_rule>>

\* classifier.load(path); joblib.load raises when there is no file at path and
\* the assignment to self.model does not happen
Load ==
    /\ call = NoCall
    /\ IF saved = <<>>
         THEN /\ call' = [op |-> "load", raised |-> TRUE]
              /\ UNCHANGED classifier
         ELSE /\ classifier' = load(classifier, saved[1])
              /\ call' = [op |-> "load", raised |-> FALSE,
                           was_fitted |-> classifier.fitted]
    /\ UNCHANGED <<pvars, anvars, spvars, fevars, tie_rule, saved>>

InitCL == InitML

NextCL ==
    \/ Return
    \/ Construct
    \/ Train
    \/ Predict
    \/ PredictProba
    \/ Save
    \/ Load

SpecCL == InitCL /\ [][NextCL]_vars

(***************************************************************************)
(* The analysis component: analyze.py is run, and run again.               *)
(***************************************************************************)
InitAN ==
    /\ raw = {}
    /\ processed = {}
    /\ trainres = [d \in DatasetSet |-> NoResults]
    /\ models = {}
    /\ model_src = <<>>
    /\ xgboost = TRUE
    /\ script = "none"
    /\ pc = "idle"
    /\ idx = 1
    /\ successful = 0
    /\ exitcode = NoCode
    /\ trace = <<>>
    /\ runsLeft = 0
    /\ faultsLeft = 0
    /\ classifier = NewClassifier(1)
    /\ call = NoCall
    /\ tie_rule = "low_first"
    /\ saved = <<>>
    /\ AnIdle(MaxAnalyzeRuns)
    /\ NoFrame
    /\ NoFE

NextAN == AnGet \/ AnFetched \/ AnReturn \/ AnExit

SpecAN == InitAN /\ [][NextAN]_vars

(***************************************************************************)
(* Properties of the pipeline scripts, checked under Spec.                 *)
(***************************************************************************)
LoopScripts == {"feature_engineering", "train_model", "evaluate_model"}

AnyOk == \E i \in 1..Len(trace) : trace[i].ok

\* C1: when main() of feature_engineering, train_model or evaluate_model returns,
\* it returns 0 if at least one dataset call returned True and 1 if none did.
C1_ExitCode ==
    (script \in LoopScripts /\ pc = "returned")
        => /\ Len(trace) = Len(datasets)
           /\ exitcode = IF AnyOk THEN 0 ELSE 1

\* evaluate_model has returned 0 with one dataset evaluated and another one not
C1_Witness ==
    /\ script = "evaluate_model" /\ pc = "returned" /\ exitcode = 0
    /\ \E i, j \in 1..Len(trace) : trace[i].ok /\ ~trace[j].ok

\* the dataset call of a record met an exception: a step raised, a file was not
\* found, or a model's fit or save raised
MetException(r) ==
    \/ r.fault # "none"
    \/ \E j \in 1..Len(r.outcomes) : r.outcomes[j] # "ok"

\* main() of the running script has called the datasets in order, one call each,
\* and no exception of a call has left it
MainGoesOn ==
    /\ pc = "crashed" => trace = <<>>
    /\ Len(trace) <= Len(datasets)
    /\ \A i \in 1..Len(trace) : trace[i].dataset = datasets[i]
    /\ pc = "main" => Len(trace) = idx - 1
    /\ pc = "returned" => Len(trace) = Len(datasets)

\* C2 as stated: in feature_engineering and train_model every exception raised
\* while a dataset is processed makes the dataset's call return False, main()
\* goes on with the remaining datasets and no such exception leaves main().
C2_Original ==
    script \in {"feature_engineering", "train_model"}
        => /\ MainGoesOn
           /\ \A i \in 1..Len(trace) : MetException(trace[i]) => ~trace[i].ok

\* C2 as amended: every exception that reaches the handler of process_dataset or
\* train_dataset (one not already caught per model inside train_models) makes the
\* call return False, main() goes on with the remaining datasets and no exception
\* of a dataset's processing leaves main().
C2_DatasetIsolation ==
    script \in {"feature_engineering", "train_model"}
        => /\ MainGoesOn
           /\ \A i \in 1..Len(trace) : trace[i].fault # "none" => ~trace[i].ok

\* train_model has returned after a first dataset that failed before the model
\* loop and a second dataset that was trained
C2_Witness ==
    /\ script = "train_model" /\ pc = "returned"
    /\ trace[1].fault = "prepare" /\ ~trace[1].ok
    /\ trace[2].ok

\* C3: in evaluate_model a failure while one dataset is evaluated is caught and
\* skipped: main() evaluates the remaining datasets and returns 0 or 1, it is
\* never left by an uncaught exception.
C3_EvalNeverAborts ==
    script = "evaluate_model"
        => /\ pc # "crashed"
           /\ pc = "returned" => Len(trace) = Len(datasets) /\ exitcode \in {0, 1}

\* the model loop of the call of record r was entered
TrainLoopRan(r) == r.fault \in {"none", "empty_results", "save_mkdir", "save_write"}
EvalLoopRan(r) == r.fault \in {"none", "no_metrics", "save_eval", "plots"}

\* C4: within a dataset the failure of one model does not stop the loop.
\* train_models attempts every model of create_models; a model whose fit raised
\* is not in the written results and every model without failure is, with its
\* artifact.  evaluate_dataset_models attempts every model listed in the training
\* results, and exactly those that could be loaded and predicted are evaluated.
C4_ModelIsolation ==
    /\ script = "train_model" =>
         \A i \in 1..Len(trace) :
           LET r == trace[i]
               ms == create_models(ProblemTypeOf(r.dataset), xgboost) IN
           TrainLoopRan(r) =>
             /\ r.attempted = ms
             /\ \A j \in 1..Len(ms) :
                  /\ r.outcomes[j] = "ok" => train_model_path(ms[j], r.dataset) \in models
                  /\ r.ok /\ r.outcomes[j] = "ok"
                        => ms[j] \in SeqToSet(trainres[r.dataset].results)
                  /\ r.ok /\ r.outcomes[j] = "fit_fail"
                        => ms[j] \notin SeqToSet(trainres[r.dataset].results)
    /\ script = "evaluate_model" =>
         \A i \in 1..Len(trace) :
           LET r == trace[i]
               ms == trainres[r.dataset].results IN
           EvalLoopRan(r) =>
             /\ r.attempted = ms
             /\ Len(r.outcomes) = Len(ms)
             /\ \A j \in 1..Len(ms) :
                  eval_model_path(ms[j], r.dataset) \notin models => r.outcomes[j] = "missing"
             /\ r.ok => \E j \in 1..Len(ms) : r.outcomes[j] = "ok"

\* evaluate_model has evaluated a dataset whose first listed model has no artifact
\* (its save raised during training) and whose second model was evaluated
C4_Witness ==
    /\ script = "evaluate_model"
    /\ \E i \in 1..Len(trace) :
         /\ trace[i].ok
         /\ Len(trace[i].outcomes) >= 2
         /\ trace[i].outcomes[1] = "missing"
         /\ trace[i].outcomes[2] = "ok"

\* C5: a missing input file fails only its own dataset.  feature_engineering
\* reads the raw CSV and fails the dataset when it is absent; train_model reads
\* the processed CSV if it exists, else the raw CSV, and fails with not-found only
\* when both are absent; each dataset's result depends on its own files and
\* faults only, and every dataset is called.
C5_MissingFile ==
    /\ script = "feature_engineering" =>
         /\ MainGoesOn
         /\ \A i \in 1..Len(trace) :
              LET r == trace[i] IN
              /\ r.source = IF r.dataset \in raw THEN "raw" ELSE "none"
              /\ r.fault = "not_found" <=> r.dataset \notin raw
              /\ r.ok <=> (r.dataset \in raw /\ r.fault = "none")
    /\ script = "train_model" =>
         /\ MainGoesOn
         /\ \A i \in 1..Len(trace) :
              LET r == trace[i] IN
              /\ r.source = IF r.dataset \in processed THEN "processed"
                            ELSE IF r.dataset \in raw THEN "raw" ELSE "none"
              /\ r.fault = "not_found" <=> r.dataset \notin (processed \cup raw)
              /\ r.ok <=> (r.dataset \in (processed \cup raw) /\ r.fault = "none")

\* train_model has returned: the first dataset had neither file, the second was
\* trained on its raw CSV, the third on its processed CSV
C5_Witness ==
    /\ script = "train_model" /\ pc = "returned"
    /\ trace[1].fault = "not_found" /\ ~trace[1].ok
    /\ trace[2].source = "raw" /\ trace[2].ok
    /\ trace[3].source = "processed" /\ trace[3].ok

\* C6: data_prep's exit code is 1 when no dataset was downloaded and 0 when at
\* least one was.
C6_PrepExitCode ==
    (script = "data_prep" /\ pc = "returned")
        => exitcode = IF AnyOk THEN 0 ELSE 1


\* the two scripts build the same path data/models/{m}_{d}_model.joblib for a
\* pair, and distinct pairs have distinct paths
PathsAgree ==
    \A m \in ModelNames, d \in DatasetSet :
      /\ train_model_path(m, d) =
           <<"data/models/">> \o Tokens(m) \o Tokens(d) \o <<"model.joblib">>
      /\ eval_model_path(m, d) = train_model_path(m, d)
      /\ \A m2 \in ModelNames, d2 \in DatasetSet :
           train_model_path(m, d) = train_model_path(m2, d2) => m = m2 /\ d = d2

\* C14: a model artifact is keyed by (model name, dataset name): train_model writes
\* the artifact of model m for dataset d to data/models/{m}_{d}_model.joblib,
\* evaluate_model reads it from the same path, and over the names the scripts use
\* distinct (model, dataset) pairs have distinct paths; so the artifacts on disk
\* are those of the pairs trained, and a model evaluated for d is one saved for d.
C14_ArtifactKey ==
    /\ PathsAgree
    /\ script = "train_model" =>
         \A i \in 1..Len(trace) : \A j \in 1..Len(trace[i].outcomes) :
           trace[i].outcomes[j] = "ok"
              => train_model_path(trace[i].attempted[j], trace[i].dataset) \in models
    /\ script = "evaluate_model" =>
         \A i \in 1..Len(trace) : \A j \in 1..Len(trace[i].outcomes) :
           trace[i].outcomes[j] = "ok"
              => train_model_path(trace[i].attempted[j], trace[i].dataset) \in models

\* evaluate_model has evaluated random_forest for california_housing from the
\* artifact training wrote, while no artifact exists for random_forest on iris
C14_Witness ==
    /\ script = "evaluate_model"
    /\ Len(trace) >= 1 /\ trace[1].ok
    /\ trace[1].attempted[2] = "random_forest" /\ trace[1].outcomes[2] = "ok"
    /\ train_model_path("random_forest", "california_housing") \in models
    /\ train_model_path("random_forest", "iris") \notin models

\* the running train_model has dumped the artifact of model m for dataset d
SavedThisRun(m, d) ==
    \E i \in 1..Len(trace) : \E j \in 1..Len(trace[i].outcomes) :
      /\ trace[i].dataset = d
      /\ trace[i].attempted[j] = m
      /\ trace[i].outcomes[j] = "ok"

\* the running train_model has opened the training-results file of d for writing
ResultsWrittenThisRun(d) ==
    \E i \in 1..Len(trace) :
      trace[i].dataset = d /\ (trace[i].ok \/ trace[i].fault = "save_write")

\* C15: artifacts are written once per run and overwritten on the next: within a
\* training run each dataset is trained once and each of its models at most once,
\* and when a training run has finished, every model artifact and every
\* training-results document on disk was written by that run.
C15_OverwrittenEachRun ==
    script = "train_model" =>
      /\ \A i, j \in 1..Len(trace) : trace[i].dataset = trace[j].dataset => i = j
      /\ \A i \in 1..Len(trace) : \A j, k \in 1..Len(trace[i].attempted) :
            trace[i].attempted[j] = trace[i].attempted[k] => j = k
      /\ pc = "returned" =>
            \A d \in DatasetSet :
              /\ \A m \in ModelNames :
                    train_model_path(m, d) \in models => SavedThisRun(m, d)
              /\ trainres[d].state # "absent" => ResultsWrittenThisRun(d)

\* C20: after a dataset was trained, every model listed under 'results' in its
\* training-results document has an artifact on disk that was saved in that run,
\* and models_trained is the number of listed models.
C20_ListedModelsSaved ==
    script = "train_model" =>
      \A i \in 1..Len(trace) :
        trace[i].ok =>
          LET d == trace[i].dataset
              res == trainres[d] IN
          /\ res.state = "ok"
          /\ res.models_trained = Len(res.results)
          /\ \A m \in SeqToSet(res.results) :
                /\ train_model_path(m, d) \in models
                /\ SavedThisRun(m, d)

\* the fit of at least one model of the call recorded in r went through
SomeModelTrained(r) ==
    \E j \in 1..Len(r.outcomes) : r.outcomes[j] \in {"ok", "save_fail"}

\* C21: train_dataset returns True for a dataset only if at least one model was
\* trained on it; when every model fails to train it returns False, the
\* training-results file of the dataset is left as it was, main's counter of
\* successful datasets is not increased, and train_model exits with 0 only if some
\* dataset had a model trained.
C21_SuccessNeedsModel ==
    /\ [][(script = "train_model" /\ pc = "main" /\ Len(trace') = Len(trace) + 1) =>
            LET r == trace'[Len(trace')] IN
            /\ r.ok => SomeModelTrained(r)
            /\ (r.attempted # <<>> /\ ~SomeModelTrained(r)) =>
                  /\ ~r.ok
                  /\ trainres'[r.dataset] = trainres[r.dataset]
                  /\ successful' = successful]_vars
    /\ [](script = "train_model" /\ exitcode = 0 =>
            \E i \in 1..Len(trace) : trace[i].ok /\ SomeModelTrained(trace[i]))

\* train_model has returned 1; for one dataset all its models were attempted and
\* none was fitted, the call returned False and the dataset has no results file
C21_Witness ==
    /\ script = "train_model" /\ pc = "returned" /\ exitcode = 1
    /\ Len(trace) = Len(datasets)
    /\ \E i \in 1..Len(trace) :
          /\ Len(trace[i].attempted) >= 3
          /\ ~SomeModelTrained(trace[i])
          /\ ~trace[i].ok
          /\ trainres[trace[i].dataset] = NoResults

\* C22: when the xgboost package cannot be imported, train_model still runs: it
\* attempts, for every dataset it has data for, the three models of the problem
\* type without xgboost, and returns its normal exit code after the three
\* datasets.
C22_XGBoostOptional ==
    (script = "train_model" /\ ~xgboost) =>
      /\ pc # "crashed"
      /\ \A i \in 1..Len(trace) :
            trace[i].source # "none" /\ trace[i].fault # "prepare" =>
              /\ trace[i].attempted
                    = create_models(ProblemTypeOf(trace[i].dataset), FALSE)
              /\ Len(trace[i].attempted) = 3
      /\ pc = "returned" =>
            /\ Len(trace) = Len(datasets)
            /\ exitcode = train_main_return(successful)

\* C19: in whatever order the scripts are run and re-run, when evaluate_model
\* evaluates a model of a dataset it reads the data source (processed CSV or raw
\* CSV) that the model was fitted on.
C19_SameSource ==
    script = "evaluate_model" =>
      \A i \in 1..Len(trace) : \A j \in 1..Len(trace[i].outcomes) :
        trace[i].outcomes[j] = "ok"
          => model_src[eval_model_path(trace[i].attempted[j], trace[i].dataset)]
               = trace[i].source

\* C13: nothing is retried or repeated within a run: a run of analyze.py issues
\* exactly one HTTP GET whatever its outcome, and a run of feature_engineering,
\* train_model or evaluate_model, once ended, has processed california_housing,
\* iris and wine exactly once each, in that order.
C13_OncePerRun ==
    /\ an_pc \in {"fetched", "returned"} => an_gets = 1
    /\ (script \in LoopScripts /\ pc \in {"returned", "crashed"})
          => [i \in 1..Len(trace) |-> trace[i].dataset] = datasets

(***************************************************************************)
(* Feature engineering: process_dataset on one raw CSV, step by step.      *)
(***************************************************************************)
InitFE ==
    /\ raw = {}
    /\ processed = {}
    /\ trainres = [d \in DatasetSet |-> NoResults]
    /\ models = {}
    /\ model_src = <<>>
    /\ xgboost = TRUE
    /\ script = "none"
    /\ pc = "idle"
    /\ idx = 1
    /\ successful = 0
    /\ exitcode = NoCode
    /\ trace = <<>>
    /\ runsLeft = 0
    /\ faultsLeft = 0
    /\ classifier = NewClassifier(1)
    /\ call = NoCall
    /\ tie_rule = "low_first"
    /\ saved = <<>>
    /\ AnIdle(0)
    /\ NoFrame
    /\ NoFE

NextFE ==
    \/ FeLoad
    \/ FeMissing
    \/ FeEncode
    \/ FeEngineer
    \/ FeScale
    \/ FeSelect
    \/ FeSave

SpecFE == InitFE /\ [][NextFE]_vars

(***************************************************************************)
(* Properties of process_dataset, checked under SpecFE.                    *)
(***************************************************************************)
\* the frame that was loaded is one data_prep writes for the dataset
FromDataPrep(df) ==
    /\ Len(df) >= Len(RawColumns(fe_name))
    /\ SubSeq(columns_of(df), 1, Len(RawColumns(fe_name))) = RawColumns(fe_name)

\* C23: scale_features does not change the values of the target column: for each
\* of the frames data_prep writes (california_housing with its target MedHouseVal
\* among them), the column that select_features, train_model and evaluate_model
\* detect as the target has the same values after scaling as before.
C23_ScalingKeepsTarget ==
    (fe_step = "scaled" /\ FromDataPrep(fe_prev)) =>
      LET t == detect_target(target_candidates, fe_df, 1) IN
      t # <<>> => column(fe_df, t).values = column(fe_prev, t).values

\* the columns of df whose name starts with interaction_ and that prev has not
InteractionColumns(df, prev) ==
    {i \in 1..Len(df) :
       /\ df[i].name[1][1] = "interaction" /\ Len(df[i].name[1]) > 1
       /\ ~HasColumn(prev, df[i].name)}

\* C25: for iris and wine, when the frame has n >= 2 numeric columns other than
\* target, label and class, engineer_features adds n*(n-1)/2 interaction_ columns,
\* one for every unordered pair of them, holding the product of the pair,
\* whatever the names are (names with spaces included).
C25_InteractionPerPair ==
    (fe_step = "engineered" /\ fe_name \in {"iris", "wine"}) =>
      LET cols == remove_targets(numeric_columns(fe_prev))
          n == Len(cols) IN
      n >= 2 =>
        /\ Cardinality(InteractionColumns(fe_df, fe_prev)) = (n * (n - 1)) \div 2
        /\ \A i, j \in 1..n : i < j =>
              \E c \in InteractionColumns(fe_df, fe_prev) :
                fe_df[c].values = times(column(fe_prev, cols[i]).values,
                                        column(fe_prev, cols[j]).values)

IsPrefix(s, t) == Len(s) <= Len(t) /\ SubSeq(t, 1, Len(s)) = s

\* C24: process_dataset applies missing-value handling, categorical encoding,
\* feature engineering and scaling in this order, then feature selection exactly
\* when the scaled frame has more than 15 columns, then saves.  When selection
\* ran and the frame has a target candidate, the saved frame consists of
\* min(15, number of other columns) of the other columns, in their order and
\* with their values, followed by the target column with its values unchanged;
\* when it has no target candidate the saved frame is the scaled frame.
C24_StepsAndSelection ==
    /\ \/ IsPrefix(fe_log, <<"loaded", "missing", "encoded", "engineered", "scaled",
                             "selected", "saved">>)
       \/ IsPrefix(fe_log, <<"loaded", "missing", "encoded", "engineered", "scaled",
                             "saved">>)
    /\ fe_step = "selected" => Len(fe_prev) > 15
    /\ (fe_step = "saved" /\ "selected" \notin SeqToSet(fe_log)) => Len(fe_df) <= 15
    /\ (fe_step = "saved" /\ "selected" \in SeqToSet(fe_log)) =>
         LET t == detect_target(target_candidates, fe_prev, 1)
             others == Len(fe_prev) - 1
             k == IF others < 15 THEN others ELSE 15 IN
         IF t = <<>> THEN fe_df = fe_prev
         ELSE /\ Len(fe_df) = k + 1
              /\ fe_df[k + 1] = column(fe_prev, t)
              /\ \A i \in 1..k : /\ fe_df[i].name # t
                                 /\ HasColumn(fe_prev, fe_df[i].name)
                                 /\ fe_df[i] = column(fe_prev, fe_df[i].name)
              /\ \A i, j \in 1..k : fe_df[i].name = fe_df[j].name => i = j

\* the wine frame of data_prep was saved after selection: 15 of its 94 feature
\* columns and the target
C24_Witness ==
    /\ fe_name = "wine" /\ fe_step = "saved"
    /\ "selected" \in SeqToSet(fe_log)
    /\ Len(fe_prev) = 95
    /\ Len(fe_df) = 16
    /\ fe_df[16].name = Name("target")

(***************************************************************************)
(* Data preparation: train_model and evaluate_model prepare the same frame. *)
(***************************************************************************)
InitSP ==
    /\ raw = {}
    /\ processed = {}
    /\ trainres = [d \in DatasetSet |-> NoResults]
    /\ models = {}
    /\ model_src = <<>>
    /\ xgboost = TRUE
    /\ script = "none"
    /\ pc = "idle"
    /\ idx = 1
    /\ successful = 0
    /\ exitcode = NoCode
    /\ trace = <<>>
    /\ runsLeft = 0
    /\ faultsLeft = 0
    /\ classifier = NewClassifier(1)
    /\ call = NoCall
    /\ tie_rule = "low_first"
    /\ saved = <<>>
    /\ AnIdle(0)
    /\ frame \in Frames
    /\ permutation \in RowOrders(frame.nrows)
    /\ sp_train = NotRun
    /\ sp_eval = NotRun
    /\ NoFE

NextSP == TrainPrepare \/ EvalPrepare

SpecSP == InitSP /\ [][NextSP]_vars

(***************************************************************************)
(* Properties of the data preparation, checked under SpecSP.               *)
(***************************************************************************)
\* C17: for a scaled model evaluate_model fits the StandardScaler on exactly the
\* rows that train_test_split assigns to the training partition, the complement
\* of the test rows, and on no test row.
C17_ScalerOnTrainingRows ==
    (sp_eval.run /\ ~sp_eval.raised)
        => /\ sp_eval.scaler_rows = (1..frame.nrows) \ SeqToSet(sp_eval.test)
           /\ sp_eval.scaler_rows \cap SeqToSet(sp_eval.test) = {}

\* C18: on the same frame evaluate_model picks the same target column as
\* train_model (the first of target, label, class, y, price, MedHouseVal that is a
\* column, else the last column) and derives the same test rows, which are the
\* rows held out of training.
C18_SamePreparation ==
    (sp_train.run /\ sp_eval.run)
        => /\ sp_eval.target = sp_train.target
           /\ sp_eval.target =
                LET cands == <<"target", "label", "class", "y", "price", "MedHouseVal">>
                    present == {i \in 1..Len(cands) : cands[i] \in SeqToSet(frame.columns)}
                IN IF present = {} THEN frame.columns[Len(frame.columns)]
                   ELSE cands[CHOOSE i \in present : \A j \in present : i <= j]
           /\ sp_eval.raised = sp_train.raised
           /\ sp_eval.test = sp_train.test
           /\ ~sp_train.raised =>
                /\ SeqToSet(sp_eval.test) \cap SeqToSet(sp_train.train) = {}
                /\ SeqToSet(sp_eval.test) \cup SeqToSet(sp_train.train) = 1..frame.nrows

\* both scripts have prepared a frame whose first column is label and whose second
\* is target, with a test row that is not the last row
C18_Witness ==
    /\ sp_train.run /\ sp_eval.run
    /\ frame.columns = <<"label", "target">>
    /\ frame.nrows = 4
    /\ sp_eval.target = "target"
    /\ sp_eval.test = <<2>>

(***************************************************************************)
(* Properties of analyze.py, checked under SpecAN.                         *)
(***************************************************************************)
\* the fields of the body that are present have the type the analysis expects
WellTyped(body) ==
    /\ body.data # <<>> => body.data[1].type = "dict"
    /\ body.timestamp # <<>> => body.timestamp[1].type = "number"

\* C16: data, timestamp and language are optional in the backend's JSON object:
\* whichever of them are absent, fetch_and_analyze_metrics returns success = True,
\* with a missing data counted as empty, a missing timestamp taken as the current
\* time and a missing language reported as 'unknown'; main() then returns 0.
C16_OptionalFields ==
    (an_pc \in {"fetched", "returned"} /\ an_answer.kind = "object"
        /\ WellTyped(an_answer.body[1]))
      => LET body == an_answer.body[1] IN
         /\ an_result.success
         /\ an_result.fields = IF body.data = <<>> THEN 0 ELSE body.data[1].val
         /\ an_result.timestamp = IF body.timestamp = <<>> THEN an_answer.now
                                   ELSE body.timestamp[1].val
         /\ an_result.backend_language = IF body.language = <<>> THEN "unknown"
                                          ELSE body.language[1]
         /\ an_pc = "returned" => an_exit = 0

\* analyze.py has returned 0 for a body {} at a time other than 0
C16_Witness ==
    /\ an_pc = "returned" /\ an_exit = 0
    /\ an_answer.kind = "object"
    /\ an_answer.body[1] = [data |-> <<>>, timestamp |-> <<>>, language |-> <<>>]
    /\ an_answer.now = 1
    /\ an_result.backend_language = "unknown"

(***************************************************************************)
(* Properties of the classifier and the prediction service, checked under  *)
(* SpecML.                                                                 *)
(***************************************************************************)
LabelSet == {"cats", "dogs", "birds", "fish"}

MinOf(a, b) == IF a <= b THEN a ELSE b

\* C7: get_predictions(features, top_k) returns one list per row, each list with
\* exactly top_k (label, confidence) pairs, every label one of cats, dogs, birds,
\* fish; for every top_k from 0 on and every number of trained classes.
C7_ExactlyTopK ==
    (call.op = "get_predictions" /\ ~call.raised)
        => /\ Len(call.results) = call.nrows
           /\ \A i \in 1..Len(call.results) :
                /\ Len(call.results[i]) = call.top_k
                /\ \A j \in 1..Len(call.results[i]) : call.results[i][j][1] \in LabelSet

\* C8: batch_predict returns one entry per element of the batch, in the batch's
\* order, the i-th entry with one prediction list per row of the i-th element;
\* on a model trained on at most four classes it returns for every batch whose
\* elements all have rows.
C8_BatchShape ==
    call.op = "batch_predict"
        => /\ ~call.raised =>
                /\ Len(call.results) = Len(call.batch)
                /\ \A i \in 1..Len(call.batch) :
                     /\ Len(call.results[i]) = call.batch[i]
                     /\ \A j \in 1..Len(call.results[i]) :
                          Len(call.results[i][j]) = MinOf(DefaultTopK, Len(classifier.classes))
           /\ (/\ classifier.fitted
               /\ Len(classifier.classes) <= Len(labels)
               /\ \A i \in 1..Len(call.batch) : call.batch[i] > 0) => ~call.raised

\* batch_predict has returned for a batch of a one-row and a two-row matrix
C8_Witness ==
    /\ call.op = "batch_predict" /\ ~call.raised
    /\ call.batch = <<1, 2>>
    /\ Len(call.results) = 2

\* C9: for each row get_predictions returns the top_k classes of highest
\* probability (all classes when there are fewer than top_k), in non-increasing
\* order of confidence, each confidence the row's probability of the class and
\* within [0, 1] (0..n_estimators votes).
C9_TopKSorted ==
    (call.op = "get_predictions" /\ ~call.raised)
        => \A i \in 1..call.nrows :
             LET p == call.probas[i]
                 ti == call.cls[i]
                 res == call.results[i]
                 chosen == {ti[j] : j \in 1..Len(ti)} IN
             /\ Len(ti) = MinOf(call.top_k, Len(p))
             /\ Cardinality(chosen) = Len(ti)
             /\ \A j \in 1..(Len(ti) - 1) : p[ti[j]] >= p[ti[j + 1]]
             /\ \A a \in chosen, b \in (1..Len(p)) \ chosen : p[a] >= p[b]
             /\ \A j \in 1..Len(res) :
                  /\ res[j][2] = p[ti[j]]
                  /\ res[j][2] \in 0..classifier.n_estimators

\* C10: predict_proba on a trained classifier returns one row per sample and one
\* column per class seen in training, each row summing to 1 (n_estimators votes
\* out of n_estimators); it returns for every matrix that has rows.
C10_ProbaShape ==
    call.op = "predict_proba"
        => /\ ~call.raised =>
                /\ classifier.fitted
                /\ Len(call.result) = call.nrows
                /\ \A i \in 1..Len(call.result) :
                     /\ Len(call.result[i]) = Len(classifier.classes)
                     /\ SumSeq(call.result[i]) = classifier.n_estimators
                     /\ \A j \in 1..Len(call.result[i]) :
                          call.result[i][j] \in 0..classifier.n_estimators
           /\ classifier.fitted /\ call.nrows > 0 => ~call.raised

\* predict_proba has returned two rows of four columns, as in the repository's test
C10_Witness ==
    /\ call.op = "predict_proba" /\ ~call.raised
    /\ call.nrows = 2
    /\ Len(classifier.classes) = 4
    /\ \E i \in 1..2 : \E j \in 1..4 : call.result[i][j] \notin {0, classifier.n_estimators}


\* C12: predict on a trained classifier returns one prediction per input row, each
\* a class value that occurred in the training labels; it returns for every matrix
\* that has rows.
C12_PredictValues ==
    call.op = "predict"
        => /\ ~call.raised =>
                /\ classifier.fitted
                /\ Len(call.result) = call.nrows
                /\ \A i \in 1..Len(call.result) :
                     call.result[i] \in SeqToSet(classifier.classes)
           /\ classifier.fitted /\ call.nrows > 0 => ~call.raised

\* predict has returned both classes of a classifier trained on the labels 1 and 3
C12_Witness ==
    /\ call.op = "predict" /\ ~call.raised
    /\ classifier.classes = <<1, 3>>
    /\ call.result = <<3, 1>>

(***************************************************************************)
(* Properties of the classifier, checked under SpecCL.                     *)
(***************************************************************************)
\* C11: the label list of an ImageClassifier is cats, dogs, birds, fish in that
\* order at construction, whatever n_estimators is (which the forest receives),
\* and after every sequence of train, predict, predict_proba, save and load.
C11_Labels ==
    /\ classifier.labels = <<"cats", "dogs", "birds", "fish">>
    /\ call.op = "init" => /\ classifier.n_estimators = call.n_estimators
                           /\ ~classifier.fitted

\* a trained forest was saved and then loaded into a classifier that was
\* constructed after the save
C11_Witness ==
    /\ call.op = "load" /\ ~call.raised
    /\ call.was_fitted = FALSE
    /\ classifier.fitted
    /\ saved = <<DumpedModel(classifier)>>

====
